---- MODULE Spec2Model ----
(***************************************************************************)
(* Cost estimation scripts of the Cloud-Architecture-Assistant repository: *)
(* the aggregation loops of cost_estimator_1.py, cost_estimator_2.py,      *)
(* cost_estimator_3.py, cost_2.py and cost_estimator_bulkAPI.py, their     *)
(* price lookups against the AWS pricing catalog and the command-line      *)
(* entry points of cost_estimator_2.py and cost_estimator_3.py.            *)
(* Further sections hold the S3 tiers and the parsing of a catalog answer, *)
(* the calculation items of Cost Calculator/streamlit-cost-cal.py, the     *)
(* providers and the conversation of app.py and gradio_interface.py, and   *)
(* the steps of streamlit_app.py, each under a specification of its own.   *)
(*                                                                         *)
(* Amounts.  A Python float holding a price of h USD per hour is modelled  *)
(* by the integer h * 730 * 10^6 ("units": micro-dollars per month of 730  *)
(* hours).  A catalog price per hour of p micro-dollars is p * 730 units,  *)
(* and a monthly charge of m micro-dollars, which the code divides by 730, *)
(* is m units, so that the code's divisions by 730 are exact.  Formatting  *)
(* and rounding (f"{x:.4f}", f"{x:.2f}", round(x, 6), round(x, 2)) are     *)
(* roundings of these integers to the quantum of the format; ties are      *)
(* rounded up.                                                             *)
(***************************************************************************)
EXTENDS Integers, Sequences, FiniteSets, TLC

VARIABLES
    arch,         \* the architecture document (the parsed JSON), mutated in place by the estimators
    catalog,      \* the pricing catalog snapshot: outcome of get_products per service code
    price_cache,  \* self.price_cache of the estimator instance (cost_estimator_2/3)
    report,       \* what the last run returned, NoReport if it returned nothing
    raised,       \* the exception that left the last run, "none" if it returned
    queries,      \* number of pricing_client.get_products calls issued by the last run
    exitCode,     \* exit status of the last command-line script, -1 if none ran
    file,         \* the input file of the last run that read one: "ok", "invalid" (unreadable or not JSON), "none"
    last,         \* the operation that ran last
    prev,         \* the report of the run before the last one
    runs,         \* number of runs so far
    response,     \* the PriceList under study that the catalog returns to a direct price lookup
    outage,       \* the get_products calls of a run of cost_estimator_3, by their number, that raise
    session_state,    \* st.session_state of the Streamlit script that is running
    active_api,       \* app.py / gradio_interface.py: the provider get_ai_response calls first
    clients,          \* the providers whose client object is not None
    questions,        \* the questions asked in the current conversation
    answers,          \* the answers recorded in the current conversation
    current_project,  \* the project of the conversation, NoProject when it is None
    program,          \* the assistant that is running: "app" or "gradio_interface"
    api_keys          \* the providers whose key in the environment passes is_valid_api_key

\* the module-level state of app.py and of gradio_interface.py
assistantVars == <<active_api, clients, questions, answers, current_project, program, api_keys>>

vars == <<arch, catalog, price_cache, report, raised, queries, exitCode, file, last, prev, runs,
          response, outage, session_state, active_api, clients, questions, answers, current_project,
          program, api_keys>>

----------------------------------------------------------------------------
(* Bounds of the model *)

MaxNodes == 2     \* longest node list
MaxRuns == 2      \* runs of an estimator over one document
MaxLookups == 3   \* direct price lookups on one estimator instance

----------------------------------------------------------------------------
(* Numbers *)

HOURS_PER_MONTH == 730

Min(S) == CHOOSE x \in S : \A y \in S : x <= y

Abs(x) == IF x < 0 THEN -x ELSE x

\* nearest integer to n / d for d > 0, halves rounded up
RoundDiv(n, d) == (n \div d) + (IF 2 * (n % d) >= d THEN 1 ELSE 0)

\* quanta of the formats, in units
Quantum4 == HOURS_PER_MONTH * 100      \* 0.0001 USD per hour
Quantum6 == HOURS_PER_MONTH            \* 0.000001 USD per hour
Cent == 100 * 100                      \* 0.01 USD (of a monthly or yearly amount)

\* f"${x:.4f}" of an hourly amount: the number of 0.0001 USD printed
Fmt4(h) == RoundDiv(h, Quantum4)

\* f"${x:.2f}" and round(x, 2) of a monthly or yearly amount: the number of cents
Fmt2(m) == RoundDiv(m, Cent)

\* round(x, 6) of an hourly amount: the number of micro-dollars
Round6(h) == RoundDiv(h, Quantum6)

----------------------------------------------------------------------------
(* Raw attribute values of a node, as json.load delivers them *)

Absent == [kind |-> "absent", n |-> 0, unit |-> ""]     \* the key is missing
Num(n) == [kind |-> "num", n |-> n, unit |-> ""]        \* a JSON number
\* a JSON string "<n><unit>"; n = -1 stands for a text without a leading
\* numeric token, such as "bogus"
Str(n, unit) == [kind |-> "str", n |-> n, unit |-> unit]

\* Python truthiness of a raw value (used by `x or default`)
Truthy(v) == \/ v.kind = "str"
             \/ v.kind = "num" /\ v.n # 0

\* float(x) / int(x) of a present raw value raises ValueError unless the text is a number
CanFloat(v) == v.kind # "str" \/ (v.n >= 0 /\ v.unit = "")

\* float(node.get(key, default))
Float(v, default) == IF v.kind = "absent" THEN default ELSE v.n

NoLabel == "<none>"
NoCost == -1

\* ids are assigned by the upstream generator and are unique in a document
Ids == <<"n1", "n2", "n3", "n4", "n5">>
IdOf(i) == Ids[i]

\* node.get("label", node_id)
NodeLabel(node, id) == IF node.label = NoLabel THEN id ELSE node.label

Regions == {"ap-south-1", "mars-west-1"}

\* MultiAZ, BackupRetention, StorageType and IOPS are keys only
\* cost_estimator_3 reads; a node made here does not have them (MultiAZ
\* FALSE, StorageType "" and IOPS 0 stand for the missing key)
NewNode(type, label, region, itype, storage) ==
    [type |-> type, label |-> label, region |-> region, InstanceType |-> itype,
     Storage |-> storage, MultiAZ |-> FALSE, BackupRetention |-> Absent,
     StorageType |-> "", IOPS |-> 0, HourlyCost |-> NoCost, CostDetails |-> <<>>]

\* a database node with the optional keys of cost_estimator_3
NewDatabase(storage, multi_az, backup_retention, storage_type, iops) ==
    [NewNode("AmazonRDS", "db", "ap-south-1", "", storage) EXCEPT
        !.MultiAZ = multi_az, !.BackupRetention = backup_retention,
        !.StorageType = storage_type, !.IOPS = iops]

\* The nodes a document is drawn from.  Storage stands for the storage-size
\* key the script reads (Storage, storage_size, attributes.storageGB); the
\* other optional keys (EBSVolumes, quantity ...) are absent.
Nodes ==
    { NewNode("AmazonEC2", l, r, "t3.micro", Absent) : l \in {NoLabel, "web"}, r \in Regions }
    \cup { NewNode("AmazonEC2", NoLabel, "ap-south-1", "", Absent) }
    \cup { NewNode("AmazonRDS", "web", r, "", s) : r \in Regions, s \in {Absent, Num(50), Str(-1, "")} }
    \cup { NewNode("AmazonRDS", "db", "ap-south-1", "", s) :
               s \in {Str(2, "TB"), Str(512, "MB"), Str(100, ""), Num(-500), Num(0)} }
    \cup { NewDatabase(Num(50), TRUE, Num(14), "", 0),
           NewDatabase(Absent, TRUE, Absent, "", 0),
           NewDatabase(Num(50), FALSE, Num(21), "io1", 100) }
    \cup { NewNode("AmazonCloudWatch", l, "ap-south-1", "", Absent) : l \in {NoLabel, "web"} }

NodeLists == UNION { [1..n -> Nodes] : n \in 0..MaxNodes }

NoTotal == [present |-> FALSE]

\* a document as it comes from the upstream generator
NewDoc(hasNodes, nodes) ==
    [hasNodes |-> hasNodes, nodes |-> nodes, TotalCost |-> NoTotal, PricingWarnings |-> <<>>,
     hasWarnings |-> FALSE]

Docs == { NewDoc(TRUE, ns) : ns \in NodeLists } \cup { NewDoc(FALSE, <<>>) }

----------------------------------------------------------------------------
(* Python dict with insertion order: a sequence of entries with distinct keys *)

Keys(d) == { d[i].key : i \in 1..Len(d) }

\* d[key] = val, written while node number `node` is processed
DictPut(d, key, val, node) ==
    IF key \in Keys(d)
    THEN [i \in 1..Len(d) |-> IF d[i].key = key THEN [key |-> key, val |-> val, node |-> node] ELSE d[i]]
    ELSE Append(d, [key |-> key, val |-> val, node |-> node])

----------------------------------------------------------------------------
(* Reports.  total and the costs of the breakdown are in units, quantum is *)
(* the precision they are reported with; monthly and yearly are in         *)
(* micro-dollars, -1 when the report has no such field.  An entry of the   *)
(* breakdown or of the warnings names the node whose iteration wrote it.   *)

NoReport == [present |-> FALSE]

Entry(key, cost, node) == [key |-> key, cost |-> cost, node |-> node]

----------------------------------------------------------------------------
(* The pricing catalog *)

ServiceCodes == {"AmazonEC2", "AmazonRDS"}

\* get_products either raises (transport, authentication), returns an empty
\* PriceList, returns a product without an on-demand price dimension, or
\* returns a product with one on-demand price dimension
Outcomes == {"error", "empty", "noterms", "priced"}

Catalogs == [ServiceCodes -> Outcomes]

\* the queries of the scripts
ServiceCodeOf(kind) ==
    CASE kind = "EC2" -> "AmazonEC2"
      [] kind = "EC2:t3.medium" -> "AmazonEC2"
      [] kind = "EBS" -> "AmazonEC2"
      [] kind = "EBS:io1" -> "AmazonEC2"
      [] kind = "RDS" -> "AmazonRDS"
      [] kind = "RDSStorage" -> "AmazonRDS"

\* the price dimension the catalog holds for a query, USD in micro-dollars
Dimension(kind) ==
    CASE kind = "EC2" -> [unit |-> "Hrs", description |-> "instance", USD |-> 11600]
      [] kind = "EC2:t3.medium" -> [unit |-> "Hrs", description |-> "instance", USD |-> 41600]
      [] kind = "RDS" -> [unit |-> "Hrs", description |-> "instance", USD |-> 17000]
      [] kind = "EBS" -> [unit |-> "GB-Mo", description |-> "storage", USD |-> 80000]
      [] kind = "EBS:io1" -> [unit |-> "GB-Mo", description |-> "storage", USD |-> 125000]
      [] kind = "RDSStorage" -> [unit |-> "GB-Mo", description |-> "storage", USD |-> 115000]

\* the further price dimensions of the product: provisioned IOPS of an
\* io1 volume
ExtraDimensions(kind) ==
    IF kind = "EBS:io1"
    THEN << [unit |-> "IOPS-Mo", description |-> "iops", USD |-> 65000] >>
    ELSE <<>>

\* pricing_client.get_products(ServiceCode=..., Filters=...)
GetProducts(kind) ==
    LET o == catalog[ServiceCodeOf(kind)] IN
    [raises |-> o = "error",
     PriceList |-> CASE o = "priced" -> << [OnDemand |-> << Dimension(kind) >> \o ExtraDimensions(kind)] >>
                     [] o = "noterms" -> << [OnDemand |-> <<>>] >>
                     [] OTHER -> <<>>]

\* the n-th get_products call of a run of cost_estimator_3: it raises during
\* an outage of the pricing service
GetProductsAt(n, kind) ==
    IF n \in outage THEN [raises |-> TRUE, PriceList |-> <<>>] ELSE GetProducts(kind)

\* the price dimensions of a PriceList in the order the loops visit them
RECURSIVE Dimensions(_)
Dimensions(pl) == IF pl = <<>> THEN <<>> ELSE Head(pl).OnDemand \o Dimensions(Tail(pl))

IsHourUnit(u) == u \in {"Hrs", "Hours", "hr"}

\* a lookup that forgets to store its result
CachePutDropped(c, key, val) == c

CachePut(c, key, val) == [k \in DOMAIN c \cup {key} |-> IF k = key THEN val ELSE c[k]]

EmptyCache == [k \in {} |-> 0]

----------------------------------------------------------------------------
(* cost_estimator_3.py: AWSCostFetcher *)

\* lines 87-110 and 153-180: the first hourly dimension with a positive price, else 0.0
HourlyPrice(pl) ==
    LET ds == Dimensions(pl)
        hits == { i \in 1..Len(ds) : IsHourUnit(ds[i].unit) /\ ds[i].USD > 0 }
    IN IF hits = {} THEN 0 ELSE ds[Min(hits)].USD * HOURS_PER_MONTH

\* get_ec2_price and get_rds_price: cache hit, else the exact query, the
\* relaxed query when the exact one matched nothing, the price stored in the
\* cache; an exception of get_products yields 0.0 and stores nothing
HourlyLookup3(st, kind) ==
    IF kind \in DOMAIN st.cache
    THEN [price |-> st.cache[kind], cache |-> st.cache, queries |-> st.queries]
    ELSE LET Failed(n) == [price |-> 0, cache |-> st.cache, queries |-> st.queries + n]
             Found(price, n) == [price |-> price, cache |-> CachePut(st.cache, kind, price),
                                 queries |-> st.queries + n]
             Relaxed(resp) == IF resp.raises THEN Failed(2)
                              ELSE Found(HourlyPrice(resp.PriceList), 2)
             Exact(resp) == IF resp.raises THEN Failed(1)
                            ELSE IF resp.PriceList = <<>>
                            THEN Relaxed(GetProductsAt(st.queries + 2, kind))
                            ELSE Found(HourlyPrice(resp.PriceList), 1)
         IN Exact(GetProductsAt(st.queries + 1, kind))

\* the EC2 query of an instance type (the inputs hold t3.micro; t3.medium is
\* the default of cost_estimator_2 and cost_estimator_3); the type is part
\* of the cache key
EC2Query(instance_type) == IF instance_type = "t3.micro" THEN "EC2" ELSE "EC2:t3.medium"

DefaultInstanceType3 == "t3.medium"

get_ec2_price(st, instance_type) == HourlyLookup3(st, EC2Query(instance_type))

get_rds_price(st) == HourlyLookup3(st, "RDS")

\* lines 499-522: the storage price is the price of the last dimension whose
\* description holds "storage" or "volume"
StoragePrice3(pl) ==
    LET ds == Dimensions(pl)
        hits == { i \in 1..Len(ds) : ds[i].description \in {"storage", "volume"} }
    IN IF hits = {} THEN 0 ELSE ds[CHOOSE i \in hits : \A j \in hits : j <= i].USD

\* lines 516-518: the IOPS price is the price of the last dimension whose
\* description holds "iops" and neither "storage" nor "volume"
IopsPrice3(pl) ==
    LET ds == Dimensions(pl)
        hits == { i \in 1..Len(ds) : ds[i].description = "iops" }
    IN IF hits = {} THEN 0 ELSE ds[CHOOSE i \in hits : \A j \in hits : j <= i].USD

DefaultVolumeType3 == "gp3"

\* the cache key f"EBS:{volume_type}:{self.region}" of get_ebs_price
EBSQuery(volume_type) == IF volume_type = "io1" THEN "EBS:io1" ELSE "EBS"

\* lines 542-558 with throughput = 0: (storage_cost + iops_cost) / 730, the
\* IOPS charged for io1 and io2 volumes only
VolumeCost3(pricing, volume_type, volume_size_gb, iops) ==
    volume_size_gb * pricing.storage_price
        + (IF volume_type \in {"io1", "io2"} /\ iops > 0 THEN iops * pricing.iops_price ELSE 0)

NoPricing3 == [storage_price |-> 0, iops_price |-> 0]

\* get_ebs_price(volume_type, volume_size_gb, iops), lines 481-558
get_ebs_price(st, volume_type, volume_size_gb, iops) ==
    IF EBSQuery(volume_type) \in DOMAIN st.cache
    THEN [price |-> VolumeCost3(st.cache[EBSQuery(volume_type)], volume_type, volume_size_gb, iops),
          cache |-> st.cache, queries |-> st.queries]
    ELSE LET Found(pricing) ==
                 [price |-> VolumeCost3(pricing, volume_type, volume_size_gb, iops),
                  cache |-> CachePut(st.cache, EBSQuery(volume_type), pricing),
                  queries |-> st.queries + 1]
             Answer(resp) == IF resp.raises
                             THEN [price |-> 0, cache |-> st.cache, queries |-> st.queries + 1]
                             ELSE Found([storage_price |-> StoragePrice3(resp.PriceList),
                                         iops_price |-> IopsPrice3(resp.PriceList)])
         IN Answer(GetProductsAt(st.queries + 1, EBSQuery(volume_type)))

DefaultVolumeSize3 == 20
DefaultStorage3 == 20

Detail(key, val) == [key |-> key, val |-> val]

\* the cache and the query count a lookup leaves
After(r) == [cache |-> r.cache, queries |-> r.queries]

\* lines 652-678, EC2 without EBSVolumes: the instance price, the default
\* 20 GB gp3 volume, and get_ec2_price called again for InstanceHourlyCost
ResolveEC2_3(node, st) ==
    LET instance_type == IF node.InstanceType # "" THEN node.InstanceType
                         ELSE DefaultInstanceType3
        Costs(p, e, again) ==
            [raised |-> "none", hourly |-> p.price + e.price,
             details |-> << Detail("InstanceHourlyCost", Fmt4(again.price)),
                            Detail("EBSStorageHourlyCost", Fmt4(e.price)),
                            Detail("TotalHourlyCost", Fmt4(p.price + e.price)) >>,
             cache |-> again.cache, queries |-> again.queries]
        WithVolume(p, e) == Costs(p, e, get_ec2_price(After(e), instance_type))
        WithInstance(p) == WithVolume(p, get_ebs_price(After(p), DefaultVolumeType3, DefaultVolumeSize3, 0))
    IN WithInstance(get_ec2_price(st, instance_type))

DefaultBackupRetention3 == 7

\* lines 687-691: the instance price is doubled when MultiAZ is set
InstanceHourlyCost3(price, multi_az) == IF multi_az THEN price * 2 ELSE price

\* a backup cost that takes no account of the retention
BackupFlat(storage_hourly_cost, backup_retention) == storage_hourly_cost \div 10

\* line 700: storage_hourly_cost * 0.1 * (backup_retention / 7)
BackupHourlyCost3(storage_hourly_cost, backup_retention) ==
    (storage_hourly_cost * backup_retention) \div (10 * DefaultBackupRetention3)

\* lines 680-713, RDS: float(node.get("Storage", 20)) raises ValueError on a
\* text that is no number; the instance price, the storage priced as a
\* volume of the StorageType with the IOPS of the node, and the backup cost
ResolveRDS_3(node, st) ==
    IF ~CanFloat(node.Storage)
    THEN [raised |-> "ValueError", hourly |-> 0, details |-> <<>>,
          cache |-> st.cache, queries |-> st.queries]
    ELSE LET storage_type == IF node.StorageType # "" THEN node.StorageType
                             ELSE DefaultVolumeType3
             backup_retention == Float(node.BackupRetention, DefaultBackupRetention3)
             Costs(instance_hourly_cost, e, backup) ==
                 [raised |-> "none", hourly |-> instance_hourly_cost + e.price + backup,
                  details |-> << Detail("InstanceHourlyCost", Fmt4(instance_hourly_cost)),
                                 Detail("StorageHourlyCost", Fmt4(e.price)),
                                 Detail("BackupHourlyCost", Fmt4(backup)),
                                 Detail("TotalHourlyCost",
                                        Fmt4(instance_hourly_cost + e.price + backup)) >>,
                  cache |-> e.cache, queries |-> e.queries]
             WithStorage(instance_hourly_cost, e) ==
                 Costs(instance_hourly_cost, e, BackupHourlyCost3(e.price, backup_retention))
             WithInstance(p) ==
                 WithStorage(InstanceHourlyCost3(p.price, node.MultiAZ),
                             get_ebs_price(After(p), storage_type,
                                           Float(node.Storage, DefaultStorage3), node.IOPS))
         IN WithInstance(get_rds_price(st))

\* one iteration of the loop of estimate_costs, lines 646-781: the node's
\* hourly cost and cost details
ResolveNode3(node, st) ==
    CASE node.type = "AmazonEC2" -> ResolveEC2_3(node, st)
      [] node.type = "AmazonRDS" -> ResolveRDS_3(node, st)
      [] OTHER ->
           [raised |-> "none", hourly |-> 0, details |-> <<>>,
            cache |-> st.cache, queries |-> st.queries]

\* the loop of estimate_costs, lines 645-797
RECURSIVE Loop3(_, _)
Loop3(i, acc) ==
    IF i > Len(acc.nodes) \/ acc.raised # "none" THEN acc
    ELSE LET node_label == NodeLabel(acc.nodes[i], IdOf(i))
             Step(r) ==
                 IF r.raised # "none"
                 THEN [acc EXCEPT !.raised = r.raised, !.cache = r.cache, !.queries = r.queries]
                 ELSE Loop3(i + 1,
                        [raised |-> "none",
                         total |-> acc.total + r.hourly,
                         service_costs |-> DictPut(acc.service_costs, node_label, Fmt4(r.hourly), i),
                         missing |-> IF r.hourly = 0
                                     THEN Append(acc.missing, [key |-> node_label, node |-> i])
                                     ELSE acc.missing,
                         nodes |-> [acc.nodes EXCEPT ![i] =
                                      [@ EXCEPT !.CostDetails = r.details,
                                                !.HourlyCost = Fmt4(r.hourly)]],
                         cache |-> r.cache, queries |-> r.queries])
         IN Step(ResolveNode3(acc.nodes[i], After(acc)))

\* estimate_costs(architecture_json), lines 635-818
estimate_costs(doc, cache) ==
    IF ~doc.hasNodes
    THEN [raised |-> "ValueError", doc |-> doc, cache |-> cache, queries |-> 0]
    ELSE LET monthly_cost(acc) == acc.total
             yearly_cost(acc) == monthly_cost(acc) * 12
             Finish(acc) ==
                 IF acc.raised # "none"
                 THEN [raised |-> acc.raised, doc |-> [doc EXCEPT !.nodes = acc.nodes],
                       cache |-> acc.cache, queries |-> acc.queries]
                 ELSE [raised |-> "none",
                       doc |-> [doc EXCEPT
                                  !.nodes = acc.nodes,
                                  !.TotalCost = [present |-> TRUE,
                                                 HourlyCost |-> Fmt4(acc.total),
                                                 MonthlyCost |-> Fmt2(monthly_cost(acc)),
                                                 YearlyCost |-> Fmt2(yearly_cost(acc)),
                                                 ServiceBreakdown |-> acc.service_costs],
                                  !.PricingWarnings = IF acc.missing # <<>> THEN acc.missing ELSE @,
                                  !.hasWarnings = IF acc.missing # <<>> THEN TRUE ELSE @],
                       cache |-> acc.cache, queries |-> acc.queries]
         IN Finish(Loop3(1, [raised |-> "none", total |-> 0, service_costs |-> <<>>,
                             missing |-> <<>>, nodes |-> doc.nodes, cache |-> cache,
                             queries |-> 0]))

----------------------------------------------------------------------------
(* cost_estimator_2.py: AWScostEstimator *)

\* lines 153-191: success when the PriceList is not empty, price the first
\* non-zero price met, price_details keyed by description (a later dimension
\* with the same description replaces the earlier one)
RECURSIVE PriceDetails2(_, _)
PriceDetails2(ds, acc) ==
    IF ds = <<>> THEN acc
    ELSE PriceDetails2(Tail(ds), DictPut(acc, Head(ds).description, Head(ds).USD, 0))

PriceResult2(pl) ==
    LET ds == Dimensions(pl)
        nz == { i \in 1..Len(ds) : ds[i].USD # 0 }
    IN [success |-> pl # <<>>,
        price |-> IF nz = {} THEN 0 ELSE ds[Min(nz)].USD,
        price_details |-> PriceDetails2(ds, <<>>)]

Failure2 == [success |-> FALSE, price |-> 0, price_details |-> <<>>]

\* get_aws_price, lines 143-205, for the cache key of the call and the
\* answer of the catalog to its query
CachedPrice2(st, key, resp) ==
    IF key \in DOMAIN st.cache
    THEN [result |-> st.cache[key], cache |-> st.cache, queries |-> st.queries]
    ELSE LET Found(result) == [result |-> result, cache |-> CachePut(st.cache, key, result),
                               queries |-> st.queries + 1]
         IN IF resp.raises
            THEN [result |-> Failure2, cache |-> st.cache, queries |-> st.queries + 1]
            ELSE Found(PriceResult2(resp.PriceList))

\* get_aws_price(service_code, filters), lines 136-205, from a call site of
\* process_architecture: the filter list of a call site is fixed, and the
\* name of the query stands for its cache key
get_aws_price(st, kind) == CachedPrice2(st, kind, GetProducts(kind))

\* lines 136-142: the cache key is the service code and the "Field=Value"
\* parts of the filters, joined in the order the caller gave them
cache_key(service_code, filters) == <<service_code, filters>>

\* the filters of the direct lookups, each the text "Field=Value" of its part
FilterParts == {"instanceType=t3.micro", "regionCode=ap-south-1"}

\* the filter lists: every order of every non-empty set of the parts
FilterLists ==
    { <<a>> : a \in FilterParts }
    \cup { <<p[1], p[2]>> : p \in { q \in FilterParts \X FilterParts : q[1] # q[2] } }

\* the instance query of a service code
InstanceQuery(service_code) == IF service_code = "AmazonEC2" THEN "EC2" ELSE "RDS"

\* get_aws_price(service_code, filters) called on the instance by a caller
get_aws_price_filters(cache, service_code, filters) ==
    CachedPrice2([cache |-> cache, queries |-> 0], cache_key(service_code, filters),
                 GetProducts(InstanceQuery(service_code)))

\* safe_float(value), lines 221-258, default 0.0
safe_float(v) ==
    CASE v.kind = "absent" -> 0
      [] v.kind = "num" -> v.n
      [] OTHER -> IF v.n < 0 THEN 0
                  ELSE IF v.unit = "TB" THEN v.n * 1024 ELSE v.n

\* value or default
OrDefault(v, default) == IF Truthy(v) THEN v ELSE default

DefaultInstanceType2 == "t3.medium"
DefaultStorage2 == 20

\* fallback prices of lines 292, 323, 338 and 347
FallbackEC2 == 50000 * HOURS_PER_MONTH        \* 0.05 USD per hour
FallbackRDS == 80000 * HOURS_PER_MONTH        \* 0.08 USD per hour
FallbackRDSStorage == 115000                  \* 0.115 USD per GB-month

\* lines 339-342: the first price detail whose description holds "storage"
StoragePrice2(details) ==
    LET hits == { i \in 1..Len(details) : details[i].key = "storage" }
    IN IF hits = {} THEN FallbackRDSStorage ELSE details[Min(hits)].val

\* lines 266-297, EC2: the instance type defaulted and written to the node,
\* the fallback price when the lookup did not succeed
ResolveEC2_2(node, st) ==
    LET instance_type == IF node.InstanceType # "" THEN node.InstanceType
                         ELSE DefaultInstanceType2
        Costs(q, hourly_cost) ==
            [hourly |-> hourly_cost,
             node |-> [node EXCEPT !.InstanceType = instance_type,
                                   !.CostDetails = << Detail("CostPerHour", Fmt4(hourly_cost)) >>,
                                   !.HourlyCost = Fmt4(hourly_cost)],
             cache |-> q.cache, queries |-> q.queries]
        WithInstance(q) ==
            Costs(q, IF q.result.success THEN q.result.price * HOURS_PER_MONTH ELSE FallbackEC2)
    IN WithInstance(get_aws_price(st, EC2Query(instance_type)))

\* lines 299-358, RDS: the storage size normalised and written to the node,
\* the instance price, the storage price and the backup cost (a tenth of
\* the storage cost)
ResolveRDS_2(node, st) ==
    LET storage == safe_float(OrDefault(node.Storage, Num(DefaultStorage2)))
        Costs(s, instance_hourly_cost, storage_hourly_cost, backup_hourly_cost) ==
            [hourly |-> instance_hourly_cost + storage_hourly_cost + backup_hourly_cost,
             node |-> [node EXCEPT
                         !.Storage = Num(storage),
                         !.CostDetails = << Detail("StorageCost", Fmt4(storage_hourly_cost)),
                                            Detail("BackupStorageCost", Fmt4(backup_hourly_cost)) >>,
                         !.HourlyCost = Fmt4(instance_hourly_cost + storage_hourly_cost
                                             + backup_hourly_cost)],
             cache |-> s.cache, queries |-> s.queries]
        WithBackup(s, instance_hourly_cost, storage_hourly_cost) ==
            Costs(s, instance_hourly_cost, storage_hourly_cost, storage_hourly_cost \div 10)
        WithStorage(instance_hourly_cost, s) ==
            WithBackup(s, instance_hourly_cost,
                       IF s.result.success THEN storage * StoragePrice2(s.result.price_details)
                       ELSE storage * FallbackRDSStorage)
        WithInstance(q) ==
            WithStorage(IF q.result.success THEN q.result.price * HOURS_PER_MONTH ELSE FallbackRDS,
                        get_aws_price(After(q), "RDSStorage"))
    IN WithInstance(get_aws_price(st, "RDS"))

\* one iteration of the loop of process_architecture, lines 261-719: the
\* node as the iteration leaves it and its hourly cost
ResolveNode2(node, st) ==
    CASE node.type = "AmazonEC2" -> ResolveEC2_2(node, st)
      [] node.type = "AmazonRDS" -> ResolveRDS_2(node, st)
      [] OTHER ->
           [hourly |-> 0, node |-> node, cache |-> st.cache, queries |-> st.queries]

\* the loop of process_architecture, lines 261-725
RECURSIVE Loop2(_, _)
Loop2(i, acc) ==
    IF i > Len(acc.nodes) THEN acc
    ELSE LET node_label == NodeLabel(acc.nodes[i], IdOf(i))
             Step(r) ==
                 Loop2(i + 1,
                       [total |-> acc.total + r.hourly,
                        service_costs |-> DictPut(acc.service_costs, node_label, Fmt4(r.hourly), i),
                        nodes |-> [acc.nodes EXCEPT ![i] = r.node],
                        cache |-> r.cache, queries |-> r.queries])
         IN Step(ResolveNode2(acc.nodes[i], After(acc)))

\* process_architecture(architecture_json), lines 207-733;
\* architecture_json.get("nodes", []) is the empty list when the key is missing
process_architecture(doc, cache) ==
    LET Finish(acc) ==
            [raised |-> "none",
             doc |-> [doc EXCEPT !.nodes = acc.nodes,
                                 !.TotalCost = [present |-> TRUE,
                                                HourlyCost |-> Fmt4(acc.total),
                                                ServiceBreakdown |-> acc.service_costs]],
             cache |-> acc.cache, queries |-> acc.queries]
    IN Finish(Loop2(1, [total |-> 0, service_costs |-> <<>>, nodes |-> doc.nodes,
                        cache |-> cache, queries |-> 0]))

----------------------------------------------------------------------------
(* cost_2.py *)

\* get_price(pricing_client, filters, service_code), lines 20-37: the price of
\* the first dimension of the first product; 0.0 when get_products raises,
\* when nothing matches and when the product has no dimension
get_price_2(kind) ==
    LET resp == GetProducts(kind)
        ds == IF resp.PriceList = <<>> THEN <<>> ELSE Head(resp.PriceList).OnDemand
    IN IF resp.raises \/ ds = <<>> THEN 0 ELSE ds[1].USD

DefaultStorageGB2 == 100

\* one iteration of the loop of estimate_cost_from_architecture, lines
\* 137-169, with estimate_rds_cost, lines 75-127
ResolveNode_2(node) ==
    CASE node.type = "AmazonEC2" ->
           [raised |-> "none", skip |-> FALSE, queries |-> 1,
            price |-> get_price_2("EC2") * HOURS_PER_MONTH]
      [] node.type = "AmazonRDS" ->
           IF ~CanFloat(node.Storage)
           THEN [raised |-> "ValueError", skip |-> FALSE, queries |-> 1, price |-> 0]
           ELSE LET storage_gb == Float(node.Storage, DefaultStorageGB2)
                    total_hourly == get_price_2("RDS") * HOURS_PER_MONTH
                                    + get_price_2("RDSStorage") * storage_gb
                IN [raised |-> "none", skip |-> FALSE, queries |-> 2,
                    price |-> Round6(total_hourly) * Quantum6]
      [] OTHER ->
           [raised |-> "none", skip |-> TRUE, queries |-> 0, price |-> 0]

RECURSIVE Loop_2(_, _, _)
Loop_2(nodes, i, acc) ==
    IF i > Len(nodes) \/ acc.raised # "none" THEN acc
    ELSE LET Step(r) ==
                 IF r.raised # "none"
                 THEN [acc EXCEPT !.raised = r.raised, !.queries = @ + r.queries]
                 ELSE IF r.skip THEN Loop_2(nodes, i + 1, acc)
                 ELSE Loop_2(nodes, i + 1,
                             [raised |-> "none",
                              total_hourly |-> acc.total_hourly + r.price,
                              breakdown |-> Append(acc.breakdown,
                                                   Entry(IdOf(i), Round6(r.price) * Quantum6, i)),
                              queries |-> acc.queries + r.queries])
         IN Step(ResolveNode_2(nodes[i]))

\* estimate_cost_from_architecture(architecture_json), lines 131-183;
\* architecture_json["nodes"] raises KeyError when the key is missing
estimate_cost_from_architecture(doc) ==
    IF ~doc.hasNodes
    THEN [raised |-> "KeyError", report |-> NoReport, queries |-> 0]
    ELSE LET Finish(acc) ==
                 IF acc.raised # "none"
                 THEN [raised |-> acc.raised, report |-> NoReport, queries |-> acc.queries]
                 ELSE [raised |-> "none", queries |-> acc.queries,
                       report |-> [present |-> TRUE, variant |-> "cost_2",
                                   total |-> Round6(acc.total_hourly) * Quantum6,
                                   quantum |-> Quantum6,
                                   monthly |-> Fmt2(acc.total_hourly) * Cent, yearly |-> -1,
                                   breakdown |-> acc.breakdown,
                                   hasWarnings |-> FALSE, warnings |-> <<>>]]
         IN Finish(Loop_2(doc.nodes, 1, [raised |-> "none", total_hourly |-> 0,
                                         breakdown |-> <<>>, queries |-> 0]))

----------------------------------------------------------------------------
(* cost_estimator_bulkAPI.py *)

NonePrice == -1

\* get_price(pricing_client, filters, service_code), lines 13-30: as in
\* cost_2.py, but a product without a dimension leaves the loops without a
\* return statement, and the function returns None
get_price_bulk(kind) ==
    LET resp == GetProducts(kind)
        ds == IF resp.PriceList = <<>> THEN <<>> ELSE Head(resp.PriceList).OnDemand
    IN IF resp.raises \/ resp.PriceList = <<>> THEN 0
       ELSE IF ds = <<>> THEN NonePrice
       ELSE ds[1].USD

\* one iteration of the loop of estimate_cost, lines 39-78
ResolveNodeBulk(node) ==
    CASE node.type = "AmazonEC2" -> [queries |-> 1, price |-> get_price_bulk("EC2")]
      [] node.type = "AmazonRDS" -> [queries |-> 1, price |-> get_price_bulk("RDS")]
      [] OTHER -> [queries |-> 0, price |-> 0]

\* lines 38-85; total_hourly += price raises TypeError when price is None
RECURSIVE LoopBulk(_, _, _)
LoopBulk(nodes, i, acc) ==
    IF i > Len(nodes) \/ acc.raised # "none" THEN acc
    ELSE LET Step(r) ==
                 IF r.price = NonePrice
                 THEN [acc EXCEPT !.raised = "TypeError", !.queries = @ + r.queries]
                 ELSE LoopBulk(nodes, i + 1,
                        [raised |-> "none",
                         total_hourly |-> acc.total_hourly + r.price * HOURS_PER_MONTH,
                         breakdown |-> Append(acc.breakdown,
                                              Entry(nodes[i].type,
                                                    Round6(r.price * HOURS_PER_MONTH) * Quantum6, i)),
                         queries |-> acc.queries + r.queries])
         IN Step(ResolveNodeBulk(nodes[i]))

\* round(total_hourly * 24 * 30, 2) in cents: total * 720 / 730 = total * 72 / 73
\* micro-dollars, rounded to the cent
Monthly720(total) ==
    LET q == total \div 73
        r == total % 73
    IN (72 * q + ((72 * r) \div 73) + (Cent \div 2)) \div Cent

\* estimate_cost(architecture_json, access_key, secret_key), lines 33-91
\* (this script reads its node list from the key "resources": hasNodes
\* stands for the presence of that key)
estimate_cost(doc) ==
    IF ~doc.hasNodes
    THEN [raised |-> "KeyError", report |-> NoReport, queries |-> 0]
    ELSE LET Finish(acc) ==
                 IF acc.raised # "none"
                 THEN [raised |-> acc.raised, report |-> NoReport, queries |-> acc.queries]
                 ELSE [raised |-> "none", queries |-> acc.queries,
                       report |-> [present |-> TRUE, variant |-> "cost_estimator_bulkAPI",
                                   total |-> Round6(acc.total_hourly) * Quantum6,
                                   quantum |-> Quantum6,
                                   monthly |-> Monthly720(acc.total_hourly) * Cent, yearly |-> -1,
                                   breakdown |-> acc.breakdown,
                                   hasWarnings |-> FALSE, warnings |-> <<>>]]
         IN Finish(LoopBulk(doc.nodes, 1, [raised |-> "none", total_hourly |-> 0,
                                           breakdown |-> <<>>, queries |-> 0]))

----------------------------------------------------------------------------
(* cost_estimator_1.py *)

REGION_MAP == {"us-east-1", "us-east-2", "us-west-1", "us-west-2", "ap-south-1",
               "ap-northeast-1", "ap-northeast-2", "ap-southeast-1", "ap-southeast-2",
               "ca-central-1", "eu-central-1", "eu-west-1", "eu-west-2", "eu-west-3",
               "sa-east-1"}

\* get_location_from_region(region_code): the display name, or the text
\* "Region not mapped: <code>"
get_location_from_region(region_code) ==
    IF region_code \in REGION_MAP THEN [mapped |-> TRUE, name |-> region_code]
    ELSE [mapped |-> FALSE, name |-> region_code]

GB_TO_MB == 1024

NoSize == -1

\* parse_storage_size(size_str), lines 60-80; the size it returns in GB is
\* held in 1/1024 GB, so that num / GB_TO_MB is exact; None (NoSize) for a
\* text without a number
parse_storage_size(v) ==
    CASE v.kind = "num" -> v.n * GB_TO_MB
      [] v.kind = "str" /\ v.n < 0 -> NoSize
      [] v.kind = "str" /\ v.unit = "TB" -> (v.n * GB_TO_MB) * GB_TO_MB
      [] v.kind = "str" /\ v.unit = "MB" -> v.n
      [] OTHER -> v.n * GB_TO_MB

\* storage_price * storage_size, the size in 1/1024 GB
StorageMonthly1(storage_price, storage_size) ==
    storage_price * (storage_size \div GB_TO_MB)
        + (storage_price * (storage_size % GB_TO_MB)) \div GB_TO_MB

\* get_product_price(service_code, filters), lines 105-135: the price of the
\* first dimension of the first product, 0 on every exception (KeyError,
\* StopIteration of next() on a product without dimension, client errors)
get_product_price(kind) ==
    LET resp == GetProducts(kind)
        ds == IF resp.PriceList = <<>> THEN <<>> ELSE Head(resp.PriceList).OnDemand
    IN IF resp.raises \/ ds = <<>> THEN 0 ELSE ds[1].USD

DefaultStorageSize1 == 50

\* estimate_ec2_cost(node), lines 139-186: the monthly cost (quantity absent: 1)
estimate_ec2_cost(node) ==
    IF node.InstanceType = ""
    THEN [raised |-> FALSE, cost |-> 0, queries |-> 0, printed |-> TRUE]
    ELSE IF ~get_location_from_region(node.region).mapped
    THEN [raised |-> FALSE, cost |-> 0, queries |-> 0, printed |-> TRUE]
    ELSE LET price_data == get_product_price("EC2") IN
         IF price_data = 0
         THEN [raised |-> FALSE, cost |-> 0, queries |-> 1, printed |-> TRUE]
         ELSE [raised |-> FALSE, cost |-> price_data * HOURS_PER_MONTH, queries |-> 1,
               printed |-> FALSE]

\* estimate_rds_cost(node), lines 284-344: the location goes into the filters
\* whether or not the region is mapped; a size of None makes line 325 raise
\* TypeError
estimate_rds_cost(node) ==
    LET storage_size == IF node.Storage.kind = "absent"
                        THEN parse_storage_size(Str(DefaultStorageSize1, ""))
                        ELSE parse_storage_size(node.Storage)
        hourly_price == get_product_price("RDS")
        storage_price == get_product_price("RDSStorage")
    IN IF storage_size = NoSize
       THEN [raised |-> TRUE, cost |-> 0, queries |-> 2, printed |-> TRUE]
       ELSE [raised |-> FALSE, queries |-> 2, printed |-> FALSE,
             cost |-> hourly_price * HOURS_PER_MONTH
                      + StorageMonthly1(storage_price, storage_size)]

COMPONENT_HANDLERS == {"AmazonEC2", "AmazonRDS"}

\* the loop of estimate_cost_from_json, lines 828-849; warnings are the nodes
\* for which the loop or the handler printed a skip or error line
RECURSIVE Loop1(_, _, _)
Loop1(nodes, i, acc) ==
    IF i > Len(nodes) THEN acc
    ELSE LET node == nodes[i]
             component_name == NodeLabel(node, IdOf(i))
         IN IF node.type \notin COMPONENT_HANDLERS
            THEN Loop1(nodes, i + 1,
                       [acc EXCEPT !.warnings = Append(@, [key |-> component_name, node |-> i])])
            ELSE LET Step(r) ==
                         Loop1(nodes, i + 1,
                           [total_cost |-> IF ~r.raised /\ r.cost > 0 THEN acc.total_cost + r.cost
                                           ELSE acc.total_cost,
                            cost_breakdown |->
                                IF ~r.raised /\ r.cost > 0
                                THEN DictPut(acc.cost_breakdown, component_name, r.cost, i)
                                ELSE acc.cost_breakdown,
                            warnings |->
                                IF r.printed
                                THEN Append(acc.warnings, [key |-> component_name, node |-> i])
                                ELSE acc.warnings,
                            queries |-> acc.queries + r.queries])
                 IN Step(IF node.type = "AmazonEC2" THEN estimate_ec2_cost(node)
                         ELSE estimate_rds_cost(node))

Report1(acc) ==
    [present |-> TRUE, variant |-> "cost_estimator_1",
     total |-> acc.total_cost, quantum |-> 1, monthly |-> -1, yearly |-> -1,
     breakdown |-> [i \in 1..Len(acc.cost_breakdown) |->
                      Entry(acc.cost_breakdown[i].key, acc.cost_breakdown[i].val,
                            acc.cost_breakdown[i].node)],
     hasWarnings |-> acc.warnings # <<>>,
     warnings |-> acc.warnings]

\* estimate_cost_from_json(architecture_json_path), lines 803-861: an
\* unreadable file and a document without a node list return (0.0, {})
estimate_cost_from_json(fileOk, doc) ==
    LET empty == [total_cost |-> 0, cost_breakdown |-> <<>>, warnings |-> <<>>, queries |-> 0]
        Finish(acc) == [raised |-> "none", report |-> Report1(acc), queries |-> acc.queries]
    IN Finish(IF fileOk /\ doc.hasNodes THEN Loop1(doc.nodes, 1, empty) ELSE empty)

----------------------------------------------------------------------------
(* The reports of the scripts that annotate the document *)

\* the report held by the document cost_estimator_3 returns
Report3(doc) ==
    [present |-> TRUE, variant |-> "cost_estimator_3",
     total |-> doc.TotalCost.HourlyCost * Quantum4, quantum |-> Quantum4,
     monthly |-> doc.TotalCost.MonthlyCost * Cent,
     yearly |-> doc.TotalCost.YearlyCost * Cent,
     breakdown |-> [i \in 1..Len(doc.TotalCost.ServiceBreakdown) |->
                      Entry(doc.TotalCost.ServiceBreakdown[i].key,
                            doc.TotalCost.ServiceBreakdown[i].val * Quantum4,
                            doc.TotalCost.ServiceBreakdown[i].node)],
     hasWarnings |-> doc.hasWarnings,
     warnings |-> doc.PricingWarnings]

\* the report held by the document cost_estimator_2 returns
Report2(doc) ==
    [present |-> TRUE, variant |-> "cost_estimator_2",
     total |-> doc.TotalCost.HourlyCost * Quantum4, quantum |-> Quantum4,
     monthly |-> -1, yearly |-> -1,
     breakdown |-> [i \in 1..Len(doc.TotalCost.ServiceBreakdown) |->
                      Entry(doc.TotalCost.ServiceBreakdown[i].key,
                            doc.TotalCost.ServiceBreakdown[i].val * Quantum4,
                            doc.TotalCost.ServiceBreakdown[i].node)],
     hasWarnings |-> FALSE,
     warnings |-> <<>>]

----------------------------------------------------------------------------
(* The command-line scripts *)

\* `if __name__ == "__main__": main()`, cost_estimator_3.py lines 874-875 and
\* cost_estimator_2.py lines 876-877: the value main() returns is dropped
\* and the interpreter ends with status 0
ScriptExit(ret) == 0

\* main() of cost_estimator_3.py, lines 820-872: every exception of loading
\* the file and of estimate_costs is caught and makes main return 1
main3(fileOk, doc) ==
    IF ~fileOk THEN [ret |-> 1, report |-> NoReport, queries |-> 0]
    ELSE LET Finish(r) ==
                 IF r.raised # "none" THEN [ret |-> 1, report |-> NoReport, queries |-> r.queries]
                 ELSE [ret |-> 0, report |-> Report3(r.doc), queries |-> r.queries]
         IN Finish(estimate_costs(doc, EmptyCache))

\* main() of cost_estimator_2.py, lines 788-874, with estimate_from_file,
\* lines 745-763; max() over an empty ServiceBreakdown raises ValueError at
\* line 857, caught at line 870
main2(fileOk, doc) ==
    IF ~fileOk THEN [ret |-> 1, report |-> NoReport, queries |-> 0]
    ELSE LET Finish(r) ==
                 [ret |-> IF r.doc.TotalCost.ServiceBreakdown = <<>> THEN 1 ELSE 0,
                  report |-> Report2(r.doc), queries |-> r.queries]
         IN Finish(process_architecture(doc, EmptyCache))

----------------------------------------------------------------------------
(* Operations *)

\* a caller hands the document to AWSCostFetcher.estimate_costs; the document
\* it returns is the one it was given
EstimateCosts3 ==
    /\ runs < MaxRuns
    /\ last \in {"none", "estimate_costs"}
    /\ \E r \in {estimate_costs(arch, price_cache)} :
       /\ arch' = r.doc
       /\ price_cache' = r.cache
       /\ raised' = r.raised
       /\ queries' = r.queries
       /\ report' = IF r.raised = "none" THEN Report3(r.doc) ELSE NoReport
    /\ prev' = report
    /\ last' = "estimate_costs"
    /\ runs' = runs + 1
    /\ UNCHANGED <<catalog, exitCode, file>>
    /\ UNCHANGED <<response, outage, session_state, assistantVars>>

\* a caller hands the document to AWScostEstimator.process_architecture
ProcessArchitecture2 ==
    /\ runs < MaxRuns
    /\ last \in {"none", "process_architecture"}
    /\ \E r \in {process_architecture(arch, price_cache)} :
       /\ arch' = r.doc
       /\ price_cache' = r.cache
       /\ raised' = r.raised
       /\ queries' = r.queries
       /\ report' = Report2(r.doc)
    /\ prev' = report
    /\ last' = "process_architecture"
    /\ runs' = runs + 1
    /\ UNCHANGED <<catalog, exitCode, file>>
    /\ UNCHANGED <<response, outage, session_state, assistantVars>>

\* cost_2.py run on the document
EstimateCostFromArchitecture ==
    /\ runs < MaxRuns
    /\ last \in {"none", "estimate_cost_from_architecture"}
    /\ \E r \in {estimate_cost_from_architecture(arch)} :
       /\ raised' = r.raised
       /\ queries' = r.queries
       /\ report' = r.report
    /\ prev' = report
    /\ last' = "estimate_cost_from_architecture"
    /\ runs' = runs + 1
    /\ UNCHANGED <<arch, catalog, price_cache, exitCode, file>>
    /\ UNCHANGED <<response, outage, session_state, assistantVars>>

\* cost_estimator_bulkAPI.py run on the document
EstimateCostBulk ==
    /\ runs < MaxRuns
    /\ last \in {"none", "estimate_cost"}
    /\ \E r \in {estimate_cost(arch)} :
       /\ raised' = r.raised
       /\ queries' = r.queries
       /\ report' = r.report
    /\ prev' = report
    /\ last' = "estimate_cost"
    /\ runs' = runs + 1
    /\ UNCHANGED <<arch, catalog, price_cache, exitCode, file>>
    /\ UNCHANGED <<response, outage, session_state, assistantVars>>

\* cost_estimator_1.py run on the file that holds the document
EstimateCostFromJson1 ==
    /\ runs < MaxRuns
    /\ last \in {"none", "estimate_cost_from_json"}
    /\ \E fileOk \in BOOLEAN :
         \E r \in {estimate_cost_from_json(fileOk, arch)} :
         /\ raised' = r.raised
         /\ queries' = r.queries
         /\ report' = r.report
         /\ file' = IF fileOk THEN "ok" ELSE "invalid"
    /\ prev' = report
    /\ last' = "estimate_cost_from_json"
    /\ runs' = runs + 1
    /\ UNCHANGED <<arch, catalog, price_cache, exitCode>>
    /\ UNCHANGED <<response, outage, session_state, assistantVars>>

\* python cost_estimator_3.py -f <file>
Main3 ==
    /\ runs < MaxRuns
    /\ last \in {"none", "main3"}
    /\ \E fileOk \in BOOLEAN :
         \E r \in {main3(fileOk, arch)} :
         /\ exitCode' = ScriptExit(r.ret)
         /\ queries' = r.queries
         /\ report' = r.report
         /\ file' = IF fileOk THEN "ok" ELSE "invalid"
    /\ raised' = "none"
    /\ prev' = report
    /\ last' = "main3"
    /\ runs' = runs + 1
    /\ UNCHANGED <<arch, catalog, price_cache>>
    /\ UNCHANGED <<response, outage, session_state, assistantVars>>

\* python cost_estimator_2.py -f <file>
Main2 ==
    /\ runs < MaxRuns
    /\ last \in {"none", "main2"}
    /\ \E fileOk \in BOOLEAN :
         \E r \in {main2(fileOk, arch)} :
         /\ exitCode' = ScriptExit(r.ret)
         /\ queries' = r.queries
         /\ report' = r.report
         /\ file' = IF fileOk THEN "ok" ELSE "invalid"
    /\ raised' = "none"
    /\ prev' = report
    /\ last' = "main2"
    /\ runs' = runs + 1
    /\ UNCHANGED <<arch, catalog, price_cache>>
    /\ UNCHANGED <<response, outage, session_state, assistantVars>>

\* a caller looks a price up with AWScostEstimator.get_aws_price
GetAwsPrice ==
    /\ runs < MaxLookups
    /\ \E service_code \in ServiceCodes, filters \in FilterLists :
         \E r \in {get_aws_price_filters(price_cache, service_code, filters)} :
            /\ price_cache' = r.cache
            /\ queries' = r.queries
            /\ last' = [service_code |-> service_code, filters |-> filters]
    /\ runs' = runs + 1
    /\ UNCHANGED <<arch, catalog, report, raised, exitCode, file, prev>>
    /\ UNCHANGED <<response, outage, session_state, assistantVars>>

\* no Streamlit script is running
NoSession == [step |-> "none"]

\* current_project = None
NoProject == [present |-> FALSE]

\* the assistant has not been started
AssistantIdle ==
    /\ active_api = "none"
    /\ clients = {}
    /\ questions = <<>>
    /\ answers = <<>>
    /\ current_project = NoProject
    /\ program = "none"
    /\ api_keys = {}

Init ==
    /\ response = <<>>
    /\ outage = {}
    /\ session_state = NoSession
    /\ AssistantIdle
    /\ arch \in Docs
    /\ catalog \in Catalogs
    /\ price_cache = EmptyCache
    /\ report = NoReport
    /\ prev = NoReport
    /\ raised = "none"
    /\ queries = 0
    /\ exitCode = -1
    /\ file = "none"
    /\ last = "none"
    /\ runs = 0

Next ==
    \/ EstimateCosts3
    \/ ProcessArchitecture2
    \/ EstimateCostFromArchitecture
    \/ EstimateCostBulk
    \/ EstimateCostFromJson1
    \/ Main3
    \/ Main2

Spec == Init /\ [][Next]_vars

\* an estimator instance that serves direct price lookups only; last holds
\* the arguments of the last lookup
InitLookups ==
    /\ outage = {}
    /\ response = <<>>
    /\ session_state = NoSession
    /\ AssistantIdle
    /\ arch = NewDoc(FALSE, <<>>)
    /\ catalog \in Catalogs
    /\ price_cache = EmptyCache
    /\ report = NoReport
    /\ raised = "none"
    /\ queries = 0
    /\ exitCode = -1
    /\ file = "none"
    /\ last = [service_code |-> "", filters |-> <<>>]
    /\ prev = NoReport
    /\ runs = 0

NextLookups == GetAwsPrice

SpecLookups == InitLookups /\ [][NextLookups]_vars

----------------------------------------------------------------------------
(* cost_estimator_3.py: AWSCostFetcher.get_s3_price                        *)
(*                                                                         *)
(* The prices of S3 storage are in thousandths of a dollar per GB-month;   *)
(* the cost get_s3_price returns is held before its division by 730, in    *)
(* thousandths of a dollar per month.                                      *)

TIER1_GB == 51200      \* 50 TB
TIER2_GB == 460800     \* 450 TB

\* the texts a description holds, of those the scripts look for
Mentions(description) ==
    CASE description = "first 50 tb of storage" -> {"storage", "first 50 tb"}
      [] description = "next 450 tb of storage" -> {"storage", "next 450 tb", "450 tb"}
      [] description = "storage over 500 tb" -> {"storage", "over 500 tb"}
      [] OTHER -> {description}

\* the price dimensions of S3 Standard storage the catalog publishes
S3Tier(n) ==
    CASE n = 1 -> [unit |-> "GB-Mo", description |-> "first 50 tb of storage", USD |-> 23]
      [] n = 2 -> [unit |-> "GB-Mo", description |-> "next 450 tb of storage", USD |-> 22]
      [] n = 3 -> [unit |-> "GB-Mo", description |-> "storage over 500 tb", USD |-> 21]

\* the orders in which a product can list tiers: the first tier and any of
\* the others, in any order (priceDimensions is a JSON object)
TierLists ==
    { t \in UNION { [1..n -> 1..3] : n \in 1..3 } :
        /\ \A i, j \in DOMAIN t : i # j => t[i] # t[j]
        /\ \E i \in DOMAIN t : t[i] = 1 }

S3Product(t) == [storageClass |-> "Standard", OnDemand |-> [i \in DOMAIN t |-> S3Tier(t[i])]]

\* the answers of the catalog to an AmazonS3 query: nothing, or the
\* Standard storage product
S3Responses == { <<>> } \cup { << S3Product(t) >> : t \in TierLists }

\* the get_products calls of one get_s3_price call
S3Lookups == {"price", "tier2", "tier3"}

\* the sizes a caller asks a price for, in GB
StorageSizes == {100, TIER1_GB, 60000, TIER1_GB + TIER2_GB, 600000}

\* lines 222-241: the first dimension of a Standard product with a unit in
\* GB, a description that holds "storage" and a positive price; 0 if none
RECURSIVE S3PricePerGb(_)
S3PricePerGb(pl) ==
    IF pl = <<>> THEN 0
    ELSE LET ds == Head(pl).OnDemand
             hits == { i \in 1..Len(ds) : /\ ds[i].unit = "GB-Mo"
                                          /\ "storage" \in Mentions(ds[i].description)
                                          /\ ds[i].USD > 0 }
         IN IF Head(pl).storageClass = "Standard" /\ hits # {}
            THEN ds[Min(hits)].USD
            ELSE S3PricePerGb(Tail(pl))

\* lines 285-293 and 327-335: the loops over every product; `break` leaves
\* the loop over the dimensions of one term only, so the price found is
\* the first match of the last product that has one; 0 if none
RECURSIVE TierPrice(_, _, _)
TierPrice(pl, texts, found) ==
    IF pl = <<>> THEN found
    ELSE LET ds == Head(pl).OnDemand
             hits == { i \in 1..Len(ds) : Mentions(ds[i].description) \cap texts # {} }
         IN TierPrice(Tail(pl), texts, IF hits = {} THEN found ELSE ds[Min(hits)].USD)

\* lines 195-254: the price per GB, cached unless the query raised; an
\* empty answer is asked again with relaxed filters
S3BasePrice(cache, pl, fails) ==
    IF "S3:storage" \in DOMAIN cache
    THEN [price |-> cache["S3:storage"], cache |-> cache, queries |-> 0]
    ELSE IF "price" \in fails
    THEN [price |-> 0, cache |-> cache, queries |-> 1]
    ELSE [price |-> S3PricePerGb(pl),
          cache |-> CachePut(cache, "S3:storage", S3PricePerGb(pl)),
          queries |-> IF pl = <<>> THEN 2 ELSE 1]

\* lines 268-301 (tier 2) and 310-343 (tier 3): the price of a tier, looked
\* up under its own cache key; the price `otherwise` when the answer holds
\* no price of the tier or the query raises
S3TierPrice(st, pl, fails, lookup, texts, otherwise) ==
    IF ("S3:storage:" \o lookup) \in DOMAIN st.cache
    THEN [price |-> st.cache["S3:storage:" \o lookup], cache |-> st.cache, queries |-> st.queries]
    ELSE IF lookup \in fails
    THEN [price |-> otherwise, cache |-> st.cache, queries |-> st.queries + 1]
    ELSE LET Found(p) == [price |-> p, cache |-> CachePut(st.cache, "S3:storage:" \o lookup, p),
                          queries |-> st.queries + 1]
             Answer(p) == Found(IF p = 0 THEN otherwise ELSE p)
         IN Answer(TierPrice(pl, texts, 0))

\* get_s3_price(storage_gb), lines 193-354, before the division by 730 of
\* line 352
get_s3_price(cache, pl, fails, storage_gb) ==
    LET Tier3(b, t2, t3) ==
            [price |-> TIER1_GB * b.price + TIER2_GB * t2.price
                          + (storage_gb - TIER1_GB - TIER2_GB) * t3.price,
             cache |-> t3.cache, queries |-> t3.queries]
        Tier2(b, t2) ==
            IF storage_gb - TIER1_GB <= TIER2_GB
            THEN [price |-> TIER1_GB * b.price + (storage_gb - TIER1_GB) * t2.price,
                  cache |-> t2.cache, queries |-> t2.queries]
            ELSE Tier3(b, t2, S3TierPrice(After(t2), pl, fails, "tier3",
                                          {"over 500 tb", "500+ tb"}, t2.price))
        Tier1(b) ==
            IF b.price = 0 THEN b
            ELSE IF storage_gb <= TIER1_GB
            THEN [price |-> storage_gb * b.price, cache |-> b.cache, queries |-> b.queries]
            ELSE Tier2(b, S3TierPrice(After(b), pl, fails, "tier2",
                                      {"next 450 tb", "450 tb"}, b.price))
    IN Tier1(S3BasePrice(cache, pl, fails))

\* a caller asks AWSCostFetcher.get_s3_price for the price of a size; the
\* get_products calls named in fails raise
GetS3Price ==
    /\ runs < MaxLookups
    /\ \E storage_gb \in StorageSizes, fails \in SUBSET S3Lookups :
         \E r \in {get_s3_price(price_cache, response, fails, storage_gb)} :
            /\ price_cache' = r.cache
            /\ queries' = r.queries
            /\ report' = [present |-> TRUE, variant |-> "get_s3_price", total |-> r.price]
            /\ last' = [storage_gb |-> storage_gb, fails |-> fails]
    /\ prev' = report
    /\ runs' = runs + 1
    /\ UNCHANGED <<arch, catalog, raised, exitCode, file, response, outage, session_state, assistantVars>>

\* an estimator instance that serves get_s3_price calls only, over each
\* answer of the catalog
InitS3 ==
    /\ outage = {}
    /\ response \in S3Responses
    /\ session_state = NoSession
    /\ AssistantIdle
    /\ arch = NewDoc(FALSE, <<>>)
    /\ catalog = [c \in ServiceCodes |-> "priced"]
    /\ price_cache = EmptyCache
    /\ report = NoReport
    /\ prev = NoReport
    /\ raised = "none"
    /\ queries = 0
    /\ exitCode = -1
    /\ file = "none"
    /\ last = [storage_gb |-> 0, fails |-> {}]
    /\ runs = 0

NextS3 == GetS3Price

SpecS3 == InitS3 /\ [][NextS3]_vars

----------------------------------------------------------------------------
(* The parsing of one catalog answer: cost_estimator_3.py lines 503-532    *)
(* (get_ebs_price) and cost_estimator_2.py lines 162-191 (get_aws_price)   *)

\* the price dimensions of an answer that bundles the charges of a volume
BundledDimensions ==
    { Dimension("EBS:io1"), ExtraDimensions("EBS:io1")[1],
      [unit |-> "GB-Mo", description |-> "volume", USD |-> 100000],
      [unit |-> "MiBps-Mo", description |-> "throughput", USD |-> 40000] }

\* the answers: one record with one to four of the dimensions in any order,
\* or two records of one dimension each
Responses ==
    { << [OnDemand |-> ds] >> :
        ds \in { t \in UNION { [1..n -> BundledDimensions] : n \in 1..4 } :
                   \A i, j \in DOMAIN t : i # j => t[i] # t[j] } }
    \cup { << [OnDemand |-> << p[1] >>], [OnDemand |-> << p[2] >>] >> :
             p \in { q \in BundledDimensions \X BundledDimensions : q[1] # q[2] } }

\* get_ebs_price parses the answer to its query, lines 499-532
ParseEbsPricing3 ==
    /\ runs < MaxLookups
    /\ last' = "get_ebs_price"
    /\ report' = [present |-> TRUE, variant |-> "cost_estimator_3",
                  storage_price |-> StoragePrice3(response),
                  iops_price |-> IopsPrice3(response)]
    /\ runs' = runs + 1
    /\ UNCHANGED <<arch, catalog, price_cache, raised, queries, exitCode, file, prev,
                   response, outage, session_state, assistantVars>>

\* get_aws_price parses the answer to its query, lines 162-191
ParsePriceResult2 ==
    /\ runs < MaxLookups
    /\ last' = "get_aws_price"
    /\ report' = [present |-> TRUE, variant |-> "cost_estimator_2",
                  result |-> PriceResult2(response)]
    /\ runs' = runs + 1
    /\ UNCHANGED <<arch, catalog, price_cache, raised, queries, exitCode, file, prev,
                   response, outage, session_state, assistantVars>>

InitResponses ==
    /\ outage = {}
    /\ response \in Responses
    /\ session_state = NoSession
    /\ AssistantIdle
    /\ arch = NewDoc(FALSE, <<>>)
    /\ catalog = [c \in ServiceCodes |-> "priced"]
    /\ price_cache = EmptyCache
    /\ report = NoReport
    /\ prev = NoReport
    /\ raised = "none"
    /\ queries = 0
    /\ exitCode = -1
    /\ file = "none"
    /\ last = "none"
    /\ runs = 0

NextResponses == ParseEbsPricing3 \/ ParsePriceResult2

SpecResponses == InitResponses /\ [][NextResponses]_vars

----------------------------------------------------------------------------
(* Cost Calculator/streamlit-cost-cal.py: the calculation items of main_st.  *)
(* One step is one run of the script, started by the press of one button.    *)

MaxItems == 3        \* longest list of calculation items
MaxScriptRuns == 5   \* runs of the script in one session

\* the variables no Streamlit script and no assistant touches
estimatorVars == <<arch, catalog, price_cache, report, raised, queries, exitCode, file,
                   prev, response, outage>>

EstimatorIdle ==
    /\ response = <<>>
    /\ outage = {}
    /\ arch = NewDoc(FALSE, <<>>)
    /\ catalog = [c \in ServiceCodes |-> "priced"]
    /\ price_cache = EmptyCache
    /\ report = NoReport
    /\ prev = NoReport
    /\ raised = "none"
    /\ queries = 0
    /\ exitCode = -1
    /\ file = "none"

ProductTypes == {"t3.micro", "gp3"}   \* selected_type_key
Quantities == {0, 1, 2}               \* the number_input, min_value 0.0

\* item_id is the type and the time of the run, to the microsecond
CalcItem(selected_type_key, now, quantity) ==
    [id |-> <<selected_type_key, now>>, quantity |-> quantity]

\* "Add to Calculation"
AddToCalculation ==
    \E selected_type_key \in ProductTypes, quantity \in Quantities :
        /\ runs < MaxScriptRuns
        /\ Len(session_state.calculations) < MaxItems
        /\ session_state' =
               IF quantity > 0
               THEN [session_state EXCEPT !.calculations =
                         Append(@, CalcItem(selected_type_key, runs, quantity))]
               ELSE session_state
        /\ last' = [button |-> "add", id |-> <<selected_type_key, runs>>,
                    before |-> session_state.calculations]
        /\ runs' = runs + 1
        /\ UNCHANGED <<estimatorVars, assistantVars>>

\* st.rerun() ends the run of the script where it is called: no statement
\* after it is executed, and the next run starts with no button pressed
RerunEndsScript == TRUE

\* the loop over the rows and the filter after it, for the row whose
\* button was pressed
RemoveRow(calculations, id) ==
    LET ids_to_remove == {id}
    IN  IF RerunEndsScript
        THEN calculations
        ELSE SelectSeq(calculations, LAMBDA item : item.id \notin ids_to_remove)

\* "Remove" in the row of one item
RemoveItem ==
    \E index \in 1..Len(session_state.calculations) :
        /\ runs < MaxScriptRuns
        /\ session_state' =
               [session_state EXCEPT !.calculations =
                    RemoveRow(@, session_state.calculations[index].id)]
        /\ last' = [button |-> "remove", id |-> session_state.calculations[index].id,
                    before |-> session_state.calculations]
        /\ runs' = runs + 1
        /\ UNCHANGED <<estimatorVars, assistantVars>>

\* "Clear All Calculations", shown when the list is not empty
ClearAll ==
    /\ runs < MaxScriptRuns
    /\ session_state.calculations # <<>>
    /\ session_state' = [session_state EXCEPT !.calculations = <<>>]
    /\ last' = [button |-> "clear", id |-> <<>>, before |-> session_state.calculations]
    /\ runs' = runs + 1
    /\ UNCHANGED <<estimatorVars, assistantVars>>

InitCalculator ==
    /\ session_state = [step |-> "calculator", calculations |-> <<>>]
    /\ last = [button |-> "none", id |-> <<>>, before |-> <<>>]
    /\ runs = 0
    /\ EstimatorIdle
    /\ AssistantIdle

NextCalculator == AddToCalculation \/ RemoveItem \/ ClearAll

SpecCalculator == InitCalculator /\ [][NextCalculator]_vars

----------------------------------------------------------------------------
(* app.py and gradio_interface.py: the providers and the conversation.  A    *)
(* question is "q" and an answer "a": only their number matters below.  A    *)
(* response is the name of the provider that gave it, "none" when            *)
(* get_ai_response raised "All API calls failed".                            *)

MaxAnswers == 10   \* answers given in one conversation

Providers == {"openai", "gemini", "mistral"}

\* the order in which initialize_api_clients tries the providers
InitOrder == <<"openai", "gemini", "mistral">>

apis_to_try == <<"openai", "mistral", "gemini">>

\* the number of indicators found in a description
ComplexityScores == {0, 6}

determine_question_count(project) ==
    IF project.complexity_score <= 5 THEN 10
    ELSE IF project.complexity_score <= 10 THEN 15
    ELSE IF project.complexity_score <= 15 THEN 20
    ELSE IF project.complexity_score <= 20 THEN 25
    ELSE 30

\* the first provider of the order that is in made, "none" if there is none
FirstOf(order, made) ==
    IF \E i \in 1..Len(order) : order[i] \in made
    THEN order[CHOOSE i \in 1..Len(order) :
                   /\ order[i] \in made
                   /\ \A j \in 1..(i - 1) : order[j] \notin made]
    ELSE "none"

\* raising: the providers whose client constructor raises in this call.
\* app.py returns at the first client it makes; gradio_interface.py makes
\* them all and activates the first.
initialize_api_clients(prog, keys, raising, cl, active) ==
    LET made == keys \ raising
        first == FirstOf(InitOrder, made)
    IN  IF first = "none"
        THEN [clients |-> cl, active_api |-> active]
        ELSE [clients |-> cl \cup (IF prog = "app" THEN {first} ELSE made),
              active_api |-> first]

\* try_api_call: answering are the providers whose service gives a
\* non-empty response to this call
TryApiCall(api, cl, answering) == api \in cl /\ api \in answering

\* the loop over apis_to_try, from position i on
RECURSIVE TryOthers(_, _, _, _, _)
TryOthers(i, original_api, active, cl, answering) ==
    IF i > Len(apis_to_try)
    THEN [response |-> "none", active_api |-> active]
    ELSE IF apis_to_try[i] = original_api
    THEN TryOthers(i + 1, original_api, active, cl, answering)
    ELSE IF TryApiCall(apis_to_try[i], cl, answering)
    THEN [response |-> apis_to_try[i], active_api |-> apis_to_try[i]]
    ELSE TryOthers(i + 1, original_api, apis_to_try[i], cl, answering)

get_ai_response(active, cl, answering) ==
    IF TryApiCall(active, cl, answering)
    THEN [response |-> active, active_api |-> active]
    ELSE TryOthers(1, active, active, cl, answering)

\* what a handler leaves in last: the provider that was active before its
\* call of get_ai_response, the providers that would answer, the response
Called(op, answering, r) ==
    [op |-> op, original_api |-> active_api, answering |-> answering,
     response |-> r.response]

\* "Retry API Connection"
InitializeApiClients ==
    \E raising \in SUBSET api_keys :
        \E r \in {initialize_api_clients(program, api_keys, raising, clients, active_api)} :
            /\ clients' = r.clients
            /\ active_api' = r.active_api
            /\ last' = [op |-> "initialize_api_clients", original_api |-> active_api,
                        answering |-> {}, response |-> "none"]
            /\ UNCHANGED <<questions, answers, current_project, program, api_keys,
                           estimatorVars, runs, session_state>>

\* gradio_interface.py: the dropdown of the models that were initialized
SwitchModel ==
    \E model_name \in clients :
        /\ program = "gradio_interface"
        /\ active_api' = model_name
        /\ last' = [op |-> "switch_model", original_api |-> active_api,
                    answering |-> {}, response |-> "none"]
        /\ UNCHANGED <<clients, questions, answers, current_project, program, api_keys,
                       estimatorVars, runs, session_state>>

StartConversation ==
    \E complexity_score \in ComplexityScores, answering \in SUBSET Providers :
        \E r \in {get_ai_response(active_api, clients, answering)} :
            /\ current_project' = [present |-> TRUE, complexity_score |-> complexity_score]
            /\ answers' = <<>>
            /\ questions' = IF r.response # "none" THEN <<"q">> ELSE <<>>
            /\ active_api' = r.active_api
            /\ last' = Called("start_conversation", answering, r)
            /\ UNCHANGED <<clients, program, api_keys, estimatorVars, runs, session_state>>

ContinueConversation ==
    \E answering \in SUBSET Providers :
        \E r \in {get_ai_response(active_api, clients, answering)} :
            /\ current_project.present
            /\ Len(answers) < MaxAnswers
            /\ answers' = Append(answers, "a")
            /\ questions' = IF r.response # "none" THEN Append(questions, "q") ELSE questions
            /\ active_api' = r.active_api
            /\ last' = Called("continue_conversation", answering, r)
            /\ UNCHANGED <<clients, current_project, program, api_keys,
                           estimatorVars, runs, session_state>>

\* the handlers that call get_ai_response and leave the conversation as it
\* is: analyze_requirements, generate_architecture_json, and
\* finish_conversation when generate_architecture_prompt raises
AskProvider ==
    \E answering \in SUBSET Providers :
        \E r \in {get_ai_response(active_api, clients, answering)} :
            /\ current_project.present
            /\ r.response = "none" \/ program = "gradio_interface"
            /\ active_api' = r.active_api
            /\ last' = Called("get_ai_response", answering, r)
            /\ UNCHANGED <<clients, questions, answers, current_project, program, api_keys,
                           estimatorVars, runs, session_state>>

\* finish_conversation when generate_architecture_prompt returns: the
\* security assessment is a second call, whose failure is caught
FinishConversation ==
    \E answering \in SUBSET Providers, later \in SUBSET Providers :
        \E r \in {get_ai_response(active_api, clients, answering)} :
            /\ current_project.present
            /\ r.response # "none"
            /\ active_api' = get_ai_response(r.active_api, clients, later).active_api
            /\ questions' = <<>>
            /\ answers' = <<>>
            /\ current_project' = NoProject
            /\ last' = Called("finish_conversation", answering, r)
            /\ UNCHANGED <<clients, program, api_keys, estimatorVars, runs, session_state>>

\* gradio_interface.py: "Start Over"
HandleRestart ==
    /\ program = "gradio_interface"
    /\ questions' = <<>>
    /\ answers' = <<>>
    /\ current_project' = NoProject
    /\ last' = [op |-> "handle_restart", original_api |-> active_api,
                answering |-> {}, response |-> "none"]
    /\ UNCHANGED <<active_api, clients, program, api_keys, estimatorVars, runs, session_state>>

\* the interface is served after create_ui has called initialize_api_clients
InitAssistant ==
    /\ program \in {"app", "gradio_interface"}
    /\ api_keys \in SUBSET Providers
    /\ \E raising \in SUBSET api_keys :
           \E r \in {initialize_api_clients(program, api_keys, raising, {}, "none")} :
               /\ clients = r.clients
               /\ active_api = r.active_api
    /\ questions = <<>>
    /\ answers = <<>>
    /\ current_project = NoProject
    /\ last = [op |-> "create_ui", original_api |-> "none", answering |-> {},
               response |-> "none"]
    /\ session_state = NoSession
    /\ runs = 0
    /\ EstimatorIdle

NextAssistant ==
    \/ InitializeApiClients
    \/ SwitchModel
    \/ StartConversation
    \/ ContinueConversation
    \/ AskProvider
    \/ FinishConversation
    \/ HandleRestart

SpecAssistant == InitAssistant /\ [][NextAssistant]_vars

----------------------------------------------------------------------------
(* streamlit_app.py.  One step is one press of a button: its callback, then  *)
(* the run of the script that Streamlit starts after it.  A question is "q", *)
(* or "None" when the provider gave none; an answer is "a".                  *)

\* lines 258-271, and what start_over leaves after the next run of the script
FreshSession(ai_client) ==
    [step |-> "init", questions |-> <<>>, answers |-> <<>>, current_question_idx |-> 0,
     total_questions |-> 0, ai_client |-> ai_client]

\* the body of the script; answered: the provider gives a response in this run
RunScript(ss, answered) ==
    IF ss.step = "questions" /\ Len(ss.questions) <= ss.current_question_idx
    THEN [ss EXCEPT !.questions = Append(@, IF answered THEN "q" ELSE "None")]
    ELSE IF ss.step = "generate_architecture" /\ answered
    THEN [ss EXCEPT !.step = "results"]
    ELSE ss

\* the step, were the total never looked at
StepKept(ss) == ss.step

\* the step after an answer was recorded
StepAfterAnswer(ss) ==
    IF ss.current_question_idx >= ss.total_questions THEN "understanding" ELSE ss.step

submit_answer(ss, answer_input) ==
    IF answer_input
    THEN LET recorded == [ss EXCEPT !.answers = Append(@, "a"),
                                    !.current_question_idx = @ + 1]
         IN  [recorded EXCEPT !.step = StepAfterAnswer(recorded)]
    ELSE ss

\* a press of the button op in the step from: the callback gives after
Press(op, from, after) ==
    \E answered \in BOOLEAN :
        /\ session_state.step \in from
        /\ session_state' = RunScript(after, answered)
        /\ last' = [op |-> op, before |-> session_state]
        /\ UNCHANGED <<estimatorVars, assistantVars, runs>>

\* "Apply ... Key" of the sidebar, shown in every step; the constructor may raise
ApplyKey ==
    \E made \in BOOLEAN :
        Press("apply_key", {session_state.step},
              IF made THEN [session_state EXCEPT !.ai_client = TRUE] ELSE session_state)

\* "Start Design Process"; title and description are filled in
StartProject ==
    \E complexity_score \in ComplexityScores :
        /\ session_state.ai_client
        /\ Press("start_project", {"init"},
                 [session_state EXCEPT
                      !.total_questions =
                          determine_question_count([complexity_score |-> complexity_score]),
                      !.step = "confirm_details"])

ConfirmDetails ==
    Press("confirm_details", {"confirm_details"},
          [session_state EXCEPT !.step = "questions", !.current_question_idx = 0,
                                !.questions = <<>>, !.answers = <<>>])

EditDetails ==
    Press("edit_details", {"confirm_details"}, [session_state EXCEPT !.step = "init"])

\* "Submit": validate_and_submit with an answer that is blank or not
SubmitAnswer ==
    \E answer_input \in BOOLEAN :
        Press("submit_answer", {"questions"}, submit_answer(session_state, answer_input))

\* "Confirm and Continue", "Modify Answers", "Save Changes", "Save Results"
NextStep ==
    \E move \in {<<"confirm_understanding", "understanding", "generate_architecture">>,
                 <<"modify_answers", "understanding", "modify_answers">>,
                 <<"save_modified_answers", "modify_answers", "understanding">>,
                 <<"save_all_results", "results", "download">>} :
        Press(move[1], {move[2]}, [session_state EXCEPT !.step = move[3]])

\* "Start Over" and "Start a New Project"
StartOver ==
    Press("start_over", {"understanding", "download"}, FreshSession(session_state.ai_client))

InitStreamlit ==
    /\ session_state = FreshSession(FALSE)
    /\ last = [op |-> "none", before |-> FreshSession(FALSE)]
    /\ runs = 0
    /\ EstimatorIdle
    /\ AssistantIdle

NextStreamlit ==
    \/ ApplyKey
    \/ StartProject
    \/ ConfirmDetails
    \/ EditDetails
    \/ SubmitAnswer
    \/ NextStep
    \/ StartOver

SpecStreamlit == InitStreamlit /\ [][NextStreamlit]_vars

----------------------------------------------------------------------------
(* cost_estimator_3.py while the pricing service has outages: some calls of *)
(* get_products raise (lines 119-121, 187-189, 534-540) and the same call,  *)
(* repeated, returns.                                                        *)

MaxOutage == 3   \* the calls of a run an outage can hit

\* an outage of the pricing service begins or ends between two runs
OutageChanges ==
    \E calls \in SUBSET (1..MaxOutage) :
        /\ calls # outage
        /\ runs < MaxRuns
        /\ outage' = calls
        /\ UNCHANGED <<arch, catalog, price_cache, report, raised, queries, exitCode, file,
                       last, prev, runs, response, session_state, assistantVars>>

InitOutage ==
    /\ outage \in SUBSET (1..MaxOutage)
    /\ response = <<>>
    /\ session_state = NoSession
    /\ AssistantIdle
    /\ arch \in Docs
    /\ catalog \in Catalogs
    /\ price_cache = EmptyCache
    /\ report = NoReport
    /\ prev = NoReport
    /\ raised = "none"
    /\ queries = 0
    /\ exitCode = -1
    /\ file = "none"
    /\ last = "none"
    /\ runs = 0

NextOutage == EstimateCosts3 \/ OutageChanges

SpecOutage == InitOutage /\ [][NextOutage]_vars

----------------------------------------------------------------------------
(* Statements of the specification *)

\* types with a resolver; AmazonCloudWatch has none in any script
HasResolver(type) == type \in {"AmazonEC2", "AmazonRDS"}

LibraryRuns == {"estimate_costs", "process_architecture",
                "estimate_cost_from_architecture", "estimate_cost"}

RECURSIVE SumCosts(_)
SumCosts(b) == IF b = <<>> THEN 0 ELSE Head(b).cost + SumCosts(Tail(b))

InBreakdown(i) == \E j \in 1..Len(report.breakdown) : report.breakdown[j].node = i

Warned(i) == \E j \in 1..Len(report.warnings) : report.warnings[j].node = i

NodeIndexes == IF arch.hasNodes THEN 1..Len(arch.nodes) ELSE {}

\* C1: the total a report states equals the sum of the costs of the entries
\* of its breakdown, within the rounding of the precision the report is
\* written with (half a quantum for the total and for each entry)
TotalIsSumOfBreakdown ==
    report.present =>
        2 * Abs(report.total - SumCosts(report.breakdown))
            <= (Len(report.breakdown) + 1) * report.quantum

\* C2: in every report the monthly cost is the hourly total times 730 and
\* the yearly cost is the monthly cost times 12, within the rounding of the
\* printed figures
ConversionsExact ==
    report.present =>
        /\ report.monthly # -1 =>
               2 * Abs(report.monthly - report.total) <= report.quantum + Cent
        /\ report.yearly # -1 =>
               2 * Abs(report.yearly - 12 * report.monthly) <= 13 * Cent

\* C3: a run on a document without a node list ends with an error, has
\* issued no catalog query and has produced no report
MissingNodeListAborts ==
    (last \in LibraryRuns /\ ~arch.hasNodes) =>
        /\ raised # "none"
        /\ queries = 0
        /\ ~report.present

\* C4: a node whose type has no resolver has no entry in the breakdown of
\* the report, the run returns its report, and the node is in the warnings
UnknownTypeSkippedWithWarning ==
    (report.present /\ file # "invalid") =>
        \A i \in NodeIndexes :
            ~HasResolver(arch.nodes[i].type) => ~InBreakdown(i) /\ Warned(i)

\* C5: when the catalog has no record for any query, every node with a
\* resolver has cost 0 in the report and is in its warnings, and the run
\* raised nothing
NoRecordsZeroCostAndWarning ==
    (last # "none" /\ file # "invalid" /\ arch.hasNodes
        /\ (\A i \in NodeIndexes : CanFloat(arch.nodes[i].Storage))
        /\ \A c \in ServiceCodes : catalog[c] = "empty") =>
        /\ raised = "none"
        /\ report.present
        /\ \A i \in NodeIndexes :
              HasResolver(arch.nodes[i].type) =>
                  /\ \A j \in 1..Len(report.breakdown) :
                        report.breakdown[j].node = i => report.breakdown[j].cost = 0
                  /\ Warned(i)

\* C6: whatever the catalog answers, a run on a well-formed document (a
\* node list whose sizes are numbers) raises nothing
CatalogOutcomesAbsorbed ==
    (last # "none" /\ arch.hasNodes
        /\ \A i \in NodeIndexes : CanFloat(arch.nodes[i].Storage)) =>
        raised = "none"

\* C7: the script ends with status 0 after a successful estimation and with
\* another status when the input file is unreadable or invalid or the
\* document has no node list
ExitCodeTellsStructuralError ==
    last \in {"main3", "main2"} =>
        /\ (file = "invalid" \/ ~arch.hasNodes) => exitCode # 0
        /\ (file = "ok" /\ arch.hasNodes /\ report.present /\ report.breakdown # <<>>) =>
               exitCode = 0

\* C8: the second run of an estimator, on the document the first run
\* returned and with the same catalog, returns the report of the first run
RerunIdentical ==
    (runs = 2 /\ last \in LibraryRuns /\ report.present /\ prev.present) => report = prev

\* C9: a run leaves the type, the label, the region and every attribute a
\* node had before the run as they were
InputAttributesKept ==
    [][\A i \in NodeIndexes :
          /\ arch'.nodes[i].type = arch.nodes[i].type
          /\ arch'.nodes[i].label = arch.nodes[i].label
          /\ arch'.nodes[i].region = arch.nodes[i].region
          /\ arch.nodes[i].InstanceType # "" =>
                 arch'.nodes[i].InstanceType = arch.nodes[i].InstanceType
          /\ arch.nodes[i].Storage.kind # "absent" =>
                 arch'.nodes[i].Storage = arch.nodes[i].Storage]_vars

\* C10: when the regions of all nodes are absent from the region table, the
\* run of cost_estimator_1 issues no catalog query, the total is 0 and every
\* node with a resolver has a warning
UnmappedRegionSkipped ==
    (last = "estimate_cost_from_json" /\ file = "ok" /\ arch.hasNodes
        /\ \A i \in NodeIndexes : arch.nodes[i].region \notin REGION_MAP) =>
        /\ queries = 0
        /\ report.total = 0
        /\ \A i \in NodeIndexes : HasResolver(arch.nodes[i].type) => Warned(i)

\* C11: with a catalog that prices every query, a run on a document with a
\* node list raises nothing and returns its report, whatever the shape of
\* the fields of the nodes (a size that is a text, a text that is no number)
MalformedFieldsUseDefault ==
    (last # "none" /\ file # "invalid" /\ arch.hasNodes
        /\ \A c \in ServiceCodes : catalog[c] = "priced") =>
        /\ raised = "none"
        /\ report.present

\* C12: parse_storage_size maps "2TB" to 2048 GB, "512MB" to 0.5 GB, "100" to
\* 100 GB and a text without a number to the default size (50 GB) of the
\* caller, and the handler that parses the size of a node raises nothing
SizeParsing ==
    (last = "estimate_cost_from_json" /\ file = "ok") =>
        \A i \in NodeIndexes :
            LET v == arch.nodes[i].Storage IN
            arch.nodes[i].type = "AmazonRDS" =>
                /\ v = Str(2, "TB") => parse_storage_size(v) = 2048 * GB_TO_MB
                /\ v = Str(512, "MB") => 2 * parse_storage_size(v) = GB_TO_MB
                /\ v = Str(100, "") => parse_storage_size(v) = 100 * GB_TO_MB
                /\ (v.kind = "str" /\ v.n < 0) =>
                       /\ parse_storage_size(v) = DefaultStorageSize1 * GB_TO_MB
                       /\ ~Warned(i)

\* the catalog queries one lookup of the key issues when the key is not in
\* the cache: get_ec2_price and get_rds_price repeat the query with relaxed
\* filters when the exact one matched nothing
QueriesOfKey(k) ==
    IF last' = "estimate_costs" /\ k \in {"EC2", "EC2:t3.medium", "RDS"}
        /\ catalog[ServiceCodeOf(k)] = "empty"
    THEN 2 ELSE 1

RECURSIVE SumQueries(_)
SumQueries(K) ==
    IF K = {} THEN 0
    ELSE LET k == CHOOSE x \in K : TRUE IN QueriesOfKey(k) + SumQueries(K \ {k})

\* C13: in a run of an estimator instance whose catalog answers every query,
\* the entries of the price cache are kept, and the run issues catalog
\* queries for the keys it adds to the cache only: a lookup whose key is in
\* the cache, from an earlier run or from an earlier node, issues none
CacheServesLaterLookups ==
    [][(last' \in {"estimate_costs", "process_architecture"}
          /\ \A c \in ServiceCodes : catalog[c] # "error") =>
          /\ \A k \in DOMAIN price_cache :
                k \in DOMAIN price_cache' /\ price_cache'[k] = price_cache[k]
          /\ queries' = SumQueries(DOMAIN price_cache' \ DOMAIN price_cache)]_vars

\* C13 witness: a second run of the instance over nodes with resolvers is
\* served from the cache alone
SecondRunFromCache ==
    /\ runs = 2
    /\ last \in {"estimate_costs", "process_architecture"}
    /\ DOMAIN price_cache # {}
    /\ queries = 0
    /\ report.present
    /\ \E i \in NodeIndexes : HasResolver(arch.nodes[i].type)

\* the set of the filters of a list
FilterSet(filters) == { filters[i] : i \in 1..Len(filters) }

\* C14: a lookup issues no catalog query when the cache holds an entry of a
\* lookup with the same service code and the same set of filters, in
\* whatever order they were given, and issues one query when it holds none
FilterOrderIrrelevant ==
    [][LET known == \E k \in DOMAIN price_cache :
                        /\ k[1] = last'.service_code
                        /\ FilterSet(k[2]) = FilterSet(last'.filters)
       IN queries' = IF known THEN 0 ELSE 1]_vars

\* C15: the price cache holds no entry for a query the catalog answered with
\* an error or with no record
CacheKeepsNoFailure ==
    last \in {"estimate_costs", "process_architecture"} =>
        \A k \in DOMAIN price_cache : catalog[ServiceCodeOf(k)] \notin {"error", "empty"}

\* C16: every cost a report records for a node, and its total, is greater
\* than or equal to 0 (the prices of the catalog are positive)
CostsNonNegative ==
    report.present =>
        /\ report.total >= 0
        /\ \A j \in 1..Len(report.breakdown) : report.breakdown[j].cost >= 0

\* C17: the breakdown of a report holds exactly one entry for every node
\* whose type has a resolver, none for any other node, and its entries are
\* in the order of their nodes in the node list
OneEntryPerProcessedNodeInOrder ==
    (report.present /\ file # "invalid" /\ arch.hasNodes) =>
        /\ \A i \in NodeIndexes :
              Cardinality({ j \in 1..Len(report.breakdown) : report.breakdown[j].node = i })
                  = IF HasResolver(arch.nodes[i].type) THEN 1 ELSE 0
        /\ \A j1, j2 \in 1..Len(report.breakdown) :
              j1 < j2 => report.breakdown[j1].node < report.breakdown[j2].node

\* C18: process_architecture applies the default storage size only to a
\* database node that has no Storage field: a size the node supplies as a
\* number is the size the run writes back to the node, and the storage cost
\* of the node is that size at the price per GB-month of the catalog or at
\* the fallback price
DefaultOnlyWhenAbsent ==
    [][last' = "process_architecture" =>
         \A i \in NodeIndexes :
             (arch.nodes[i].type = "AmazonRDS" /\ arch.nodes[i].Storage.kind = "num") =>
                 /\ arch'.nodes[i].Storage = arch.nodes[i].Storage
                 /\ arch'.nodes[i].CostDetails[1].val
                        \in { Fmt4(arch.nodes[i].Storage.n * Dimension("RDSStorage").USD),
                              Fmt4(arch.nodes[i].Storage.n * FallbackRDSStorage) }]_vars

\* the hourly rate the catalog holds for a query (0 when it holds none), in
\* the unit of the hourly amounts
CatalogRate(kind) ==
    IF catalog[ServiceCodeOf(kind)] = "priced" THEN Dimension(kind).USD * HOURS_PER_MONTH ELSE 0

\* the price per GB-month the catalog holds for the storage type of a node
CatalogStoragePrice(node) ==
    IF catalog["AmazonEC2"] = "priced"
    THEN Dimension(EBSQuery(IF node.StorageType # "" THEN node.StorageType ELSE "gp3")).USD
    ELSE 0

\* the price of the provisioned IOPS of a node: charged for io1 and io2
\* storage when the catalog holds an IOPS price
ProvisionedIopsCost(node) ==
    IF catalog["AmazonEC2"] = "priced" /\ node.StorageType \in {"io1", "io2"}
    THEN node.IOPS * ExtraDimensions(EBSQuery(node.StorageType))[1].USD
    ELSE 0

\* instance rate (twice when MultiAZ) + storage cost + a tenth of the
\* storage cost times retention / 7, the storage cost being storage_cost
ManagedDatabaseCost(node, storage_cost) ==
    (IF node.MultiAZ THEN 2 * CatalogRate("RDS") ELSE CatalogRate("RDS"))
        + storage_cost
        + (storage_cost * Float(node.BackupRetention, 7)) \div 70

\* C19 as stated: after estimate_costs, the hourly cost of every database
\* node is the instance rate (doubled when MultiAZ is set) plus
\* storage price per GB-month x GB / 730 plus 10% of that storage cost
\* times retention days / 7
DatabaseCostIsInstanceStorageBackup ==
    (last = "estimate_costs" /\ raised = "none") =>
        \A i \in NodeIndexes :
            LET node == arch.nodes[i] IN
            node.type = "AmazonRDS" =>
                node.HourlyCost =
                    Fmt4(ManagedDatabaseCost(node,
                            CatalogStoragePrice(node) * Float(node.Storage, 20)))

\* C19 amended: the storage cost of the formula holds, besides
\* storage price x GB, the provisioned IOPS x IOPS price of io1 and io2
\* storage; the backup surcharge is taken on that sum
DatabaseCostWithProvisionedIops ==
    (last = "estimate_costs" /\ raised = "none") =>
        \A i \in NodeIndexes :
            LET node == arch.nodes[i] IN
            node.type = "AmazonRDS" =>
                node.HourlyCost =
                    Fmt4(ManagedDatabaseCost(node,
                            CatalogStoragePrice(node) * Float(node.Storage, 20)
                                + ProvisionedIopsCost(node)))

\* C19 witness: estimate_costs has priced, from a catalog that holds every
\* price, a MultiAZ database with 14 days of retention and a database on
\* io1 storage with provisioned IOPS
MultiAZAndIopsDatabasesPriced ==
    /\ last = "estimate_costs" /\ raised = "none"
    /\ \A c \in ServiceCodes : catalog[c] = "priced"
    /\ \E i \in NodeIndexes :
           /\ arch.nodes[i].type = "AmazonRDS" /\ arch.nodes[i].MultiAZ
           /\ arch.nodes[i].BackupRetention = Num(14)
           /\ arch.nodes[i].HourlyCost = Fmt4(2 * 17000 * 730 + 50 * 80000 + 2 * 5 * 80000)
    /\ \E i \in NodeIndexes :
           /\ arch.nodes[i].StorageType = "io1" /\ arch.nodes[i].IOPS > 0
           /\ arch.nodes[i].HourlyCost > 0

\* C20: after estimate_costs and after estimate_cost_from_architecture, the
\* entry of a t3.micro instance, which declares no volumes and no quantity,
\* is the hourly rate the catalog holds for the instance (0.0116 when the
\* catalog prices it), at the precision of the report
ComputeCostIsInstanceRate ==
    (last \in {"estimate_costs", "estimate_cost_from_architecture"}
        /\ raised = "none" /\ report.present) =>
        \A j \in 1..Len(report.breakdown) :
            LET node == arch.nodes[report.breakdown[j].node] IN
            (node.type = "AmazonEC2" /\ node.InstanceType = "t3.micro") =>
                report.breakdown[j].cost
                    = RoundDiv(CatalogRate("EC2"), report.quantum) * report.quantum

\* the catalog's answer holds the price of tier n of Standard storage
Published(n) ==
    response # <<>> /\ \E i \in 1..Len(response[1].OnDemand) : response[1].OnDemand[i] = S3Tier(n)

\* the price a tier is charged at: its own when the lookup of the tier
\* price neither raises nor misses it, else the price `otherwise`
ChargedAt(n, lookup, otherwise) ==
    IF lookup \notin last.fails /\ Published(n) THEN S3Tier(n).USD ELSE otherwise

\* size x price by tier: the first 51200 GB, the next 460800 GB, the rest
TieredCost(storage_gb, p1, p2, p3) ==
    (IF storage_gb <= TIER1_GB THEN storage_gb ELSE TIER1_GB) * p1
        + (IF storage_gb <= TIER1_GB THEN 0
           ELSE IF storage_gb - TIER1_GB <= TIER2_GB THEN storage_gb - TIER1_GB ELSE TIER2_GB) * p2
        + (IF storage_gb <= TIER1_GB + TIER2_GB THEN 0
           ELSE storage_gb - TIER1_GB - TIER2_GB) * p3

\* C21: the first get_s3_price call of an instance whose price lookup is
\* answered charges the first 51200 GB at the first-tier price, the next
\* 460800 GB at the second-tier price and the rest at the third-tier price;
\* a tier whose price lookup fails is charged at the first-tier price
TieredStoragePrice ==
    (runs = 1 /\ response # <<>> /\ "price" \notin last.fails) =>
        report.total = TieredCost(last.storage_gb, S3Tier(1).USD,
                                  ChargedAt(2, "tier2", S3Tier(1).USD),
                                  ChargedAt(3, "tier3", S3Tier(1).USD))

\* the answers that hold the records and the dimensions of the answer
\* under study in another order
Reorderings ==
    { r \in Responses :
        /\ Len(r) = Len(response)
        /\ { Dimensions(r)[i] : i \in 1..Len(Dimensions(r)) }
              = { Dimensions(response)[i] : i \in 1..Len(Dimensions(response)) } }

\* C22: the prices get_ebs_price and get_aws_price extract from an answer
\* of the catalog are the prices they extract from the same records and
\* dimensions in any other order
ExtractionOrderIrrelevant ==
    /\ last = "get_ebs_price" =>
           \A r \in Reorderings : /\ StoragePrice3(r) = report.storage_price
                                  /\ IopsPrice3(r) = report.iops_price
    /\ last = "get_aws_price" =>
           \A r \in Reorderings :
               /\ PriceResult2(r).price = report.result.price
               /\ StoragePrice2(PriceResult2(r).price_details)
                      = StoragePrice2(report.result.price_details)

\* C23: in the Streamlit cost calculator, pressing the Remove button of an item
\* removes exactly that item, matched by its id, from the calculation items;
\* the other items stay, in their order.
RemoveButtonRemovesItem ==
    last.button = "remove" =>
        /\ \A i \in 1..Len(session_state.calculations) :
               session_state.calculations[i].id # last.id
        /\ session_state.calculations
               = SelectSeq(last.before, LAMBDA item : item.id # last.id)

\* C24: when the active provider fails and another provider with a valid
\* configured API key can answer, get_ai_response returns that answer and
\* does not raise 'All API calls failed'.
FallbackReachesValidProvider ==
    (/\ last.op \in {"start_conversation", "continue_conversation", "get_ai_response"}
     /\ \E api \in (api_keys \cap last.answering) : api # last.original_api)
        => last.response # "none"

\* C25: after any sequence of start_conversation and continue_conversation,
\* also when a provider fails or gives no question, the questions are as
\* many as the answers or one more.
QuestionsLeadAnswersByAtMostOne ==
    Len(questions) - Len(answers) \in {0, 1}

\* C26: when get_ai_response raises because every provider failed,
\* active_api is the provider it was before the call.
ActiveApiRestoredOnFailure ==
    (/\ last.op \in {"start_conversation", "continue_conversation", "get_ai_response"}
     /\ last.response = "none")
        => active_api = last.original_api

\* C27: in a conversation the number of questions asked never exceeds the
\* total that determine_question_count gives for the project.
QuestionsWithinTotal ==
    current_project.present =>
        Len(questions) <= determine_question_count(current_project)

\* C28: in the Streamlit flow, while step is 'questions' the answers are as
\* many as current_question_idx, which is below total_questions, and the
\* questions are as many or one more; the step becomes 'understanding'
\* exactly on the submit that makes current_question_idx = total_questions.
QuestionsStepCounts ==
    /\ session_state.step = "questions" =>
           /\ Len(session_state.answers) = session_state.current_question_idx
           /\ session_state.current_question_idx < session_state.total_questions
           /\ Len(session_state.questions) \in {session_state.current_question_idx,
                                                session_state.current_question_idx + 1}
    /\ last.before.step = "questions" =>
           (session_state.step = "understanding"
                <=> /\ last.op = "submit_answer"
                    /\ session_state.current_question_idx
                           = last.before.current_question_idx + 1
                    /\ session_state.current_question_idx = session_state.total_questions)

\* the last answer of a conversation of 15 questions was just submitted
LastAnswerSubmitted ==
    /\ last.op = "submit_answer"
    /\ last.before.step = "questions"
    /\ last.before.current_question_idx = 14
    /\ session_state.step = "understanding"
    /\ Len(session_state.answers) = 15

\* the value of an entry of a node's CostDetails
DetailOf(node, key) ==
    LET hits == { j \in 1..Len(node.CostDetails) : node.CostDetails[j].key = key }
    IN node.CostDetails[CHOOSE j \in hits : TRUE].val

\* C29: for an EC2 node of cost_estimator_3, the InstanceHourlyCost of its
\* CostDetails is the instance price that was added into its hourly cost
\* (the four-decimal texts agree up to their last digit), whatever the
\* catalog answers, also when a lookup fails and succeeds when repeated.
InstanceCostIsPriceAdded ==
    (last = "estimate_costs" /\ raised = "none") =>
        \A i \in NodeIndexes :
            arch.nodes[i].type = "AmazonEC2" =>
                LET node == arch.nodes[i]
                    added == DetailOf(node, "TotalHourlyCost")
                                 - DetailOf(node, "EBSStorageHourlyCost")
                IN  DetailOf(node, "InstanceHourlyCost") - added \in {-1, 0, 1}

\* C30: after estimate_costs, PricingWarnings.MissingPriceData lists the
\* label of a node if and only if the hourly cost of the node in this run
\* is 0, also when the document came with PricingWarnings.
MissingPriceDataIsThisRun ==
    (last = "estimate_costs" /\ raised = "none") =>
        \A i \in NodeIndexes :
            (/\ arch.hasWarnings
             /\ \E j \in 1..Len(arch.PricingWarnings) :
                    arch.PricingWarnings[j].key = NodeLabel(arch.nodes[i], IdOf(i)))
                <=> arch.nodes[i].HourlyCost = 0

============================================================================
